---------------------------- MODULE Spec2Model ----------------------------
(***************************************************************************)
(* Model of worldbox_realworld.py: download_population_data() and main().  *)
(*                                                                         *)
(* Representation.                                                         *)
(*  - A name is a sequence of character codes (ASCII), so that str.lower() *)
(*    and the string ordering used by sort_values are computed.            *)
(*  - A raw CSV cell of the value column is [kind, n]: kind = "num" for a  *)
(*    text that pd.to_numeric parses (to n), "str" for one it coerces to   *)
(*    NaN.                                                                 *)
(*  - None and NaN are the empty sequence, a present number n is <<n>>.    *)
(*  - Reals are fixed point: an area is counted in units of 1/90000, a     *)
(*    square root in units of 1/300 (rounded down), a radius in units of   *)
(*    1/1000.  Then sqrt(area) * 0.6 is 2 * ISqrt(area) thousandths, and   *)
(*    the thresholds 0.5, 0.8, 2.0, 4.0 are 500, 800, 2000, 4000.          *)
(*  - fuzzywuzzy's scorer is a library outside the repository: it is the   *)
(*    input function score[<<query, choice>>], fixed for a whole run.      *)
(*  - The network fetch and pd.read_csv are taken to succeed; the rows     *)
(*    they deliver are the input raw.                                      *)
(***************************************************************************)
EXTENDS Integers, Sequences, FiniteSets, TLC

\* ------------------------------------------------------------- bounds --
MaxRows == 2
MaxRegions == 2

\* ---------------------------------------------------------- constants --
POP_YEAR == 2023
SCORE_THRESHOLD == 85
MILLION == 1000000
MIN_RADIUS == 500

None == <<>>
NaN == <<>>

\* names of the boundary set ("Ab", "Cd") and of the population source
\* ("ab", "AB", "cx")
cAb == <<65, 98>>
cCd == <<67, 100>>
sab == <<97, 98>>
sAB == <<65, 66>>
scx == <<99, 120>>
CanonNames == {cAb, cCd}
SrcNames == {sab, sAB, scx}
\* scores either side of the threshold, and the score of equal strings
ScoreVals == {85, 86}
FullScore == {100}

Num(n) == [kind |-> "num", n |-> n]
Text == [kind |-> "str", n |-> 0]

SeqsUpTo(S, n) == UNION {[1..k -> S] : k \in 0..n}

VARIABLES raw, has_val_col, world, score,
          pc, err, run, prev,
          pop_df, pop_names, pop_map, consulted, i,
          countries, plotted, map_file, state_file

inputs == <<raw, has_val_col, world, score>>
vars == <<raw, has_val_col, world, score, pc, err, run, prev,
          pop_df, pop_names, pop_map, consulted, i,
          countries, plotted, map_file, state_file>>

\* ------------------------------------------------------ string helpers --
LowerChar(c) == IF c >= 65 /\ c <= 90 THEN c + 32 ELSE c
Lower(s) == [k \in 1..Len(s) |-> LowerChar(s[k])]

\* Python's str ordering, used by sort_values
StrLess(a, b) ==
    \/ /\ Len(a) < Len(b)
       /\ \A k \in 1..Len(a) : a[k] = b[k]
    \/ \E k \in 1..Len(a) :
          /\ k <= Len(b)
          /\ a[k] < b[k]
          /\ \A j \in 1..(k - 1) : a[j] = b[j]

\* ---------------------------------------- download_population_data() --
KeyLeq(r, s) ==
    \/ StrLess(r.name, s.name)
    \/ r.name = s.name /\ r.year <= s.year

InsertRow(r, s) ==
    LET n == Cardinality({k \in 1..Len(s) : KeyLeq(s[k], r)})
    IN  SubSeq(s, 1, n) \o <<r>> \o SubSeq(s, n + 1, Len(s))

RECURSIVE SortValues(_)
SortValues(rows) ==
    IF rows = <<>> THEN <<>>
    ELSE InsertRow(rows[Len(rows)], SortValues(SubSeq(rows, 1, Len(rows) - 1)))

RECURSIVE KeepIdx(_, _, _)
KeepIdx(rows, keep, k) ==
    IF k > Len(rows) THEN <<>>
    ELSE IF k \in keep THEN <<rows[k]>> \o KeepIdx(rows, keep, k + 1)
         ELSE KeepIdx(rows, keep, k + 1)

GroupTail(rows) ==
    KeepIdx(rows,
            {k \in 1..Len(rows) :
                 \A j \in (k + 1)..Len(rows) : rows[j].name # rows[k].name},
            1)

TargetYearRows(rows) ==
    KeepIdx(rows, {k \in 1..Len(rows) : rows[k].year = POP_YEAR}, 1)

YearPolicy(rows) ==
    IF \E k \in 1..Len(rows) : rows[k].year = POP_YEAR
    THEN TargetYearRows(rows)
    ELSE GroupTail(SortValues(rows))

ToNumeric(cell) == IF cell.kind = "num" THEN <<cell.n>> ELSE NaN

Renamed(rows) ==
    [k \in 1..Len(rows) |->
        [country |-> rows[k].name, year |-> rows[k].year,
         population |-> ToNumeric(rows[k].value)]]

DropNa(df) ==
    KeepIdx(df, {k \in 1..Len(df) : df[k].population # NaN}, 1)

download_population_data(rows) == DropNa(Renamed(YearPolicy(rows)))

\* ------------------------------------------------------ matching loop --
Unique(names) ==
    KeepIdx(names,
            {k \in 1..Len(names) : \A j \in 1..(k - 1) : names[j] # names[k]},
            1)

NameEqExact(a, b) == a = b
NameEq(a, b) == Lower(a) = Lower(b)

FirstIdx(df, cname) ==
    CHOOSE k \in 1..Len(df) :
        /\ NameEq(df[k].country, cname)
        /\ \A j \in 1..(k - 1) : ~NameEq(df[j].country, cname)

HasExact(df, cname) == \E k \in 1..Len(df) : NameEq(df[k].country, cname)

\* max(best_list, key=score): the first choice carrying the highest score
ExtractOne(cname, names) ==
    CHOOSE k \in 1..Len(names) :
        /\ \A j \in 1..Len(names) : score[<<cname, names[j]>>] <= score[<<cname, names[k]>>]
        /\ \A j \in 1..(k - 1) : score[<<cname, names[j]>>] < score[<<cname, names[k]>>]

AcceptAtThreshold(s) == s >= SCORE_THRESHOLD
Accept(s) == s > SCORE_THRESHOLD

FirstOfName(df, name) ==
    CHOOSE k \in 1..Len(df) :
        /\ df[k].country = name
        /\ \A j \in 1..(k - 1) : df[j].country # name

FuzzyValue(df, names, cname) ==
    LET b == ExtractOne(cname, names)
    IN  IF Accept(score[<<cname, names[b]>>])
        THEN df[FirstOfName(df, names[b])].population
        ELSE None

\* ---------------------------------------------------------- geometry --
RECURSIVE ISqrtR(_, _, _)
ISqrtR(n, lo, hi) ==
    IF hi - lo <= 1 THEN lo
    ELSE LET mid == (lo + hi) \div 2
         IN  IF mid * mid <= n THEN ISqrtR(n, mid, hi) ELSE ISqrtR(n, lo, mid)

ISqrt(n) == ISqrtR(n, 0, IF n + 1 < 46340 THEN n + 1 ELSE 46340)

RadiusNoFloor(area) == 2 * ISqrt(area)
Radius(area) ==
    IF 2 * ISqrt(area) > MIN_RADIUS THEN 2 * ISqrt(area) ELSE MIN_RADIUS

SidesInclusive(radius) ==
    IF radius <= 800 THEN 4
    ELSE IF radius <= 2000 THEN 6
    ELSE IF radius <= 4000 THEN 8 ELSE 12
Sides(radius) ==
    IF radius < 800 THEN 4
    ELSE IF radius < 2000 THEN 6
    ELSE IF radius < 4000 THEN 8 ELSE 12

SkippedNoneOnly(geom) == geom = "none"
Skipped(geom) == geom = "none" \/ geom = "empty"

\* ------------------------------------------------------------ records --
PopGet(name) == IF name \in DOMAIN pop_map THEN pop_map[name] ELSE None

CeilDiv(p, d) == IF p >= 0 THEN (p + d - 1) \div d ELSE 0 - ((0 - p) \div d)

Millions(pop_val) ==
    IF pop_val # None /\ pop_val[1] # 0
    THEN <<CeilDiv(pop_val[1], MILLION)>>
    ELSE None

Record(region) ==
    [country |-> region.country,
     iso3 |-> region.iso3,
     population_raw |-> PopGet(region.country),
     population_millions |-> Millions(PopGet(region.country))]

KeptCountries == countries
NewCountries == <<>>

\* ------------------------------------------------------------ actions --
\* lines 33-53, 69
Download ==
    /\ pc = "start"
    /\ has_val_col
    /\ pop_df' = download_population_data(raw)
    /\ pc' = "loaded"
    /\ UNCHANGED <<inputs, err, run, prev, pop_names, pop_map, consulted, i,
                   countries, plotted, map_file, state_file>>

\* line 46: no column named "value" or "population"
DownloadNoValueColumn ==
    /\ pc = "start"
    /\ ~has_val_col
    /\ pc' = "error"
    /\ err' = "IndexError"
    /\ UNCHANGED <<inputs, run, prev, pop_df, pop_names, pop_map, consulted, i,
                   countries, plotted, map_file, state_file>>

\* lines 70-73
StartMatch ==
    /\ pc = "loaded"
    /\ pop_names' = Unique([k \in 1..Len(pop_df) |-> pop_df[k].country])
    /\ pop_map' = <<>>
    /\ consulted' = {}
    /\ i' = 1
    /\ pc' = "match"
    /\ UNCHANGED <<inputs, err, run, prev, pop_df,
                   countries, plotted, map_file, state_file>>

\* lines 74-78
MatchExact ==
    /\ pc = "match"
    /\ i <= Len(world)
    /\ HasExact(pop_df, world[i].country)
    /\ pop_map' = (world[i].country :> pop_df[FirstIdx(pop_df, world[i].country)].population)
                    @@ pop_map
    /\ i' = i + 1
    /\ UNCHANGED <<inputs, pc, err, run, prev, pop_df, pop_names, consulted,
                   countries, plotted, map_file, state_file>>

\* lines 79-84
MatchFuzzy ==
    /\ pc = "match"
    /\ i <= Len(world)
    /\ ~HasExact(pop_df, world[i].country)
    /\ pop_names # <<>>
    /\ consulted' = consulted \cup {world[i].country}
    /\ pop_map' = (world[i].country :> FuzzyValue(pop_df, pop_names, world[i].country))
                    @@ pop_map
    /\ i' = i + 1
    /\ UNCHANGED <<inputs, pc, err, run, prev, pop_df, pop_names,
                   countries, plotted, map_file, state_file>>

\* line 80: extractOne returns None for an empty choice list and the
\* unpacking into (best, score) raises
MatchRaise ==
    /\ pc = "match"
    /\ i <= Len(world)
    /\ ~HasExact(pop_df, world[i].country)
    /\ pop_names = <<>>
    /\ consulted' = consulted \cup {world[i].country}
    /\ pc' = "error"
    /\ err' = "TypeError"
    /\ UNCHANGED <<inputs, run, prev, pop_df, pop_names, pop_map, i,
                   countries, plotted, map_file, state_file>>

\* lines 86-89
StartBuild ==
    /\ pc = "match"
    /\ i > Len(world)
    /\ countries' = NewCountries
    /\ plotted' = <<>>
    /\ i' = 1
    /\ pc' = "build"
    /\ UNCHANGED <<inputs, err, run, prev, pop_df, pop_names, pop_map, consulted,
                   map_file, state_file>>

\* lines 91-94
BuildSkip ==
    /\ pc = "build"
    /\ i <= Len(world)
    /\ Skipped(world[i].geom)
    /\ i' = i + 1
    /\ UNCHANGED <<inputs, pc, err, run, prev, pop_df, pop_names, pop_map, consulted,
                   countries, plotted, map_file, state_file>>

\* lines 95-110
BuildRegion ==
    /\ pc = "build"
    /\ i <= Len(world)
    /\ ~Skipped(world[i].geom)
    /\ LET radius == Radius(world[i].area)
       IN  plotted' = Append(plotted, [radius |-> radius, sides |-> Sides(radius)])
    /\ countries' = Append(countries, Record(world[i]))
    /\ i' = i + 1
    /\ UNCHANGED <<inputs, pc, err, run, prev, pop_df, pop_names, pop_map, consulted,
                   map_file, state_file>>

\* lines 112-118
SaveMap ==
    /\ pc = "build"
    /\ i > Len(world)
    /\ map_file' = <<plotted>>
    /\ pc' = "mapped"
    /\ UNCHANGED <<inputs, err, run, prev, pop_df, pop_names, pop_map, consulted, i,
                   countries, plotted, state_file>>

\* lines 120-123
SaveState ==
    /\ pc = "mapped"
    /\ state_file' = <<[year |-> POP_YEAR, countries |-> countries]>>
    /\ pc' = "done"
    /\ UNCHANGED <<inputs, err, run, prev, pop_df, pop_names, pop_map, consulted, i,
                   countries, plotted, map_file>>

\* lines 125-126: the script is run a second time on the same inputs
Restart ==
    /\ pc \in {"done", "error"}
    /\ run = 1
    /\ run' = 2
    /\ prev' = [pc |-> pc, err |-> err, countries |-> countries, plotted |-> plotted]
    /\ pc' = "start"
    /\ err' = ""
    /\ UNCHANGED <<inputs, pop_df, pop_names, pop_map, consulted, i,
                   countries, plotted, map_file, state_file>>

Next ==
    \/ Download
    \/ DownloadNoValueColumn
    \/ StartMatch
    \/ MatchExact
    \/ MatchFuzzy
    \/ MatchRaise
    \/ StartBuild
    \/ BuildSkip
    \/ BuildRegion
    \/ SaveMap
    \/ SaveState
    \/ Restart

\* ------------------------------------------------------ initial states --
Region(name, iso, geom, area) ==
    [country |-> name, iso3 |-> iso, geom |-> geom, area |-> area]

Row(name, year, cell) == [name |-> name, year |-> year, value |-> cell]

InitRun ==
    /\ has_val_col \in BOOLEAN
    /\ pc = "start"
    /\ err = ""
    /\ run = 1
    /\ prev = [pc |-> "", err |-> "", countries |-> <<>>, plotted |-> <<>>]
    /\ pop_df = <<>>
    /\ pop_names = <<>>
    /\ pop_map = <<>>
    /\ consulted = {}
    /\ i = 1
    /\ countries = <<>>
    /\ plotted = <<>>
    /\ map_file = None
    /\ state_file = None

ScorePairs == CanonNames \X SrcNames
UniformScores == {[p \in ScorePairs |-> v] : v \in ScoreVals}
\* the scorer lower-cases both strings first: names equal up to case score 100
CaseAwareScores ==
    {f \in [ScorePairs -> ScoreVals \cup FullScore] :
        \A p \in ScorePairs :
            f[p] \in FullScore <=> Lower(p[1]) = Lower(p[2])}

\* general inputs: years around the target year, unparsable, negative and
\* zero values, regions with and without a boundary
RowsAll ==
    {Row(n, y, c) : n \in {sab, scx}, y \in {2021, 2022, 2023},
                    c \in {Text, Num(0 - 5), Num(0), Num(1000001)}}
RegionsAll ==
    {Region(cAb, "ABW", "poly", 90000), Region(cCd, "CDX", "empty", 0)}

Init ==
    /\ raw \in SeqsUpTo(RowsAll, MaxRows)
    /\ world \in SeqsUpTo(RegionsAll, MaxRegions)
    /\ score \in UniformScores
    /\ InitRun

Spec == Init /\ [][Next]_vars

\* inputs for the matching loop: target-year rows whose values tell the rows
\* apart, every score of a consulted pair either side of the threshold
RowsMatch ==
    {Row(sab, 2023, Num(1000000)), Row(sAB, 2023, Num(1000001)),
     Row(scx, 2023, Num(2000000)), Row(scx, 2023, Num(3000000))}
RegionsMatch ==
    {Region(cAb, "ABW", "poly", 90000), Region(cCd, "CDX", "poly", 450000),
     Region(cCd, "CDX", "empty", 0)}

InitMatch ==
    /\ raw \in SeqsUpTo(RowsMatch, MaxRows)
    /\ world \in SeqsUpTo(RegionsMatch, MaxRegions)
    /\ score \in CaseAwareScores
    /\ InitRun

SpecMatch == InitMatch /\ [][Next]_vars

\* inputs for the geometry: areas on both sides of every radius threshold,
\* regions with an empty and with a missing boundary
AreasGeom ==
    {0, 62500, 63001, 159201, 160000, 998001, 1000000, 3996001, 4000000, 4410000}
RegionsGeom ==
    {Region(cAb, "ABW", "poly", a) : a \in AreasGeom}
      \cup {Region(cAb, "ABW", "empty", 0), Region(cAb, "ABW", "none", 0),
            Region(cCd, "CDX", "poly", 90000)}
RowsGeom == {Row(sab, 2023, Num(2500000))}

InitGeom ==
    /\ raw \in SeqsUpTo(RowsGeom, MaxRows)
    /\ world \in SeqsUpTo(RegionsGeom, MaxRegions)
    /\ score \in UniformScores
    /\ InitRun

SpecGeom == InitGeom /\ [][Next]_vars

\* ============================================================== claims ==
\* number of regions the matching loop has finished
MatchedUpTo ==
    IF pc = "match" THEN i - 1
    ELSE IF pc \in {"build", "mapped", "done"} THEN Len(world) ELSE 0

\* number of regions the building loop has finished
BuiltUpTo ==
    IF pc = "build" THEN i - 1
    ELSE IF pc \in {"mapped", "done"} THEN Len(world) ELSE 0

Hits(cname) ==
    {j \in 1..Len(pop_df) : Lower(pop_df[j].country) = Lower(cname)}

FirstHit(cname) == CHOOSE j \in Hits(cname) : \A h \in Hits(cname) : j <= h

\* the regions with a present, non-empty boundary among the first n
WithBoundary(n) ==
    KeepIdx(SubSeq(world, 1, n),
            {k \in 1..n : world[k].geom # "none" /\ world[k].geom # "empty"}, 1)

\* C1: every matched region whose name equals, case-insensitively, the name
\* of some row of the reduced table has the population of the first such
\* row, and extractOne was never called for it, whatever the scores are.
C1_ExactFirstRow ==
    \A k \in 1..MatchedUpTo :
        LET c == world[k].country
        IN  Hits(c) # {} =>
              /\ c \in DOMAIN pop_map
              /\ pop_map[c] = pop_df[FirstHit(c)].population
              /\ c \notin consulted

\* C1 witness: a finished run where a region has an exact row and another
\* source name with another population scores above the threshold for it.
C1_Witness ==
    /\ pc = "done"
    /\ \E k \in 1..Len(world) :
         LET c == world[k].country
         IN  /\ Hits(c) # {}
             /\ \E m \in 1..Len(pop_df) :
                    /\ m \notin Hits(c)
                    /\ score[<<c, pop_df[m].country>>] > 85
                    /\ pop_df[m].population # pop_df[FirstHit(c)].population
             /\ pop_map[c] = pop_df[FirstHit(c)].population

\* C2: every matched region without an exact row has the population of the
\* first row of a best-scoring source name when that score is above 85, and
\* None when the best score is 85 or less.
C2_FuzzyThreshold ==
    \A k \in 1..MatchedUpTo :
        LET c == world[k].country
        IN  Hits(c) = {} =>
              /\ c \in DOMAIN pop_map
              /\ \E n \in 1..Len(pop_df) :
                    /\ \A m \in 1..Len(pop_df) :
                          score[<<c, pop_df[m].country>>] <= score[<<c, pop_df[n].country>>]
                    /\ \A j \in 1..(n - 1) : pop_df[j].country # pop_df[n].country
                    /\ pop_map[c] = IF score[<<c, pop_df[n].country>>] > 85
                                    THEN pop_df[n].population
                                    ELSE None

\* C2 witness: a finished run with one region left unmatched by a best score
\* of exactly 85 and another matched through a score above 85.
C2_Witness ==
    /\ pc = "done"
    /\ \E k \in 1..Len(world) :
         /\ Hits(world[k].country) = {}
         /\ pop_map[world[k].country] = None
         /\ \E m \in 1..Len(pop_df) : score[<<world[k].country, pop_df[m].country>>] = 85
    /\ \E k \in 1..Len(world) :
         /\ Hits(world[k].country) = {}
         /\ pop_map[world[k].country] # None

\* C3 (as claimed): population_millions is the ceiling of raw / 1,000,000 for
\* a strictly positive raw population and None for a None, zero or negative
\* one.
C3_MillionsAsClaimed ==
    \A k \in 1..Len(countries) :
        LET p == countries[k].population_raw
            m == countries[k].population_millions
        IN  IF p # None /\ p[1] > 0
            THEN /\ m # None
                 /\ m[1] * 1000000 >= p[1]
                 /\ (m[1] - 1) * 1000000 < p[1]
            ELSE m = None

\* C4: the side count of every plotted polygon is the class of its radius
\* (below 0.8: 4, below 2.0: 6, below 4.0: 8, otherwise 12) and never
\* decreases when the radius grows.
C4_SidesStep ==
    /\ \A k \in 1..Len(plotted) :
         LET r == plotted[k].radius
             n == plotted[k].sides
         IN  /\ n \in {4, 6, 8, 12}
             /\ (n = 4) <=> (r < 800)
             /\ (n = 6) <=> (r >= 800 /\ r < 2000)
             /\ (n = 8) <=> (r >= 2000 /\ r < 4000)
             /\ (n = 12) <=> (r >= 4000)
    /\ \A k, l \in 1..Len(plotted) :
         plotted[k].radius <= plotted[l].radius => plotted[k].sides <= plotted[l].sides

\* C4 witness: a polygon of radius 0.798 with 4 sides next to one of radius
\* exactly 0.8 with 6 sides.
C4_Witness ==
    /\ Len(plotted) = 2
    /\ plotted[1].radius = 798 /\ plotted[1].sides = 4
    /\ plotted[2].radius = 800 /\ plotted[2].sides = 6

\* C5: the radius of every plotted region is max(0.5, sqrt(area) * 0.6): at
\* least 0.5, exactly 0.5 for area 0, the scaled root of the area above the
\* floor, and non-decreasing in the area.
C5_RadiusFloor ==
    LET kept == WithBoundary(BuiltUpTo)
    IN  pc \in {"build", "mapped", "done"} =>
        /\ Len(plotted) = Len(kept)
        /\ \A k \in 1..Len(kept) :
             LET r == plotted[k].radius
                 a == kept[k].area
                 h == r \div 2
             IN  /\ r >= 500
                 /\ a = 0 => r = 500
                 /\ r > 500 => /\ r = 2 * h
                               /\ h * h <= a
                               /\ a < (h + 1) * (h + 1)
                 /\ r = 500 => a < 251 * 251
        /\ \A k, l \in 1..Len(kept) :
             kept[k].area <= kept[l].area => plotted[k].radius <= plotted[l].radius

\* C5 witness: a region of area 0 plotted with radius 0.5 next to a region
\* plotted above the floor.
C5_Witness ==
    /\ pc = "done"
    /\ Len(plotted) = 2
    /\ \E k \in 1..Len(world) : world[k].geom = "poly" /\ world[k].area = 0
    /\ \E k \in 1..2 : plotted[k].radius = 500
    /\ \E k \in 1..2 : plotted[k].radius > 500

\* C6 (as claimed): the matching loop never raises, and every region it has
\* passed has a result in pop_map (a population or None).
C6_NeverRaisesAsClaimed ==
    /\ ~(pc = "error" /\ err = "TypeError")
    /\ \A k \in 1..MatchedUpTo : world[k].country \in DOMAIN pop_map

\* C7 (as claimed): the reduced table is the year policy applied to the rows
\* that are left after the non-numeric rows are discarded.  Stated for tables
\* in which no two rows share name and year, where the policy has no tie.
C7_DropBeforeYearPolicyAsClaimed ==
    (/\ pc \in {"loaded", "match", "build", "mapped", "done"}
     /\ \A k, l \in 1..Len(raw) :
           (raw[k].name = raw[l].name /\ raw[k].year = raw[l].year) => k = l)
    => pop_df = Renamed(YearPolicy(
                   KeepIdx(raw, {k \in 1..Len(raw) : raw[k].value.kind = "num"}, 1)))

\* C8: countries holds exactly one record, in order, for every region with a
\* present non-empty boundary that the building loop has passed, each with
\* that region's own name, code and matched population, and none for the
\* regions without one; the state file holds that list.
C8_OneRecordPerBoundary ==
    LET kept == WithBoundary(BuiltUpTo)
    IN  /\ pc \in {"build", "mapped", "done"} =>
             /\ Len(countries) = Len(kept)
             /\ \A k \in 1..Len(kept) :
                  /\ countries[k].country = kept[k].country
                  /\ countries[k].iso3 = kept[k].iso3
                  /\ countries[k].population_raw =
                        (IF kept[k].country \in DOMAIN pop_map
                         THEN pop_map[kept[k].country] ELSE None)
        /\ pc = "done" => state_file = <<[year |-> 2023, countries |-> countries]>>

\* C8 witness: a finished run over a boundary set holding a region with an
\* empty boundary and a region with a boundary, with one record written.
C8_Witness ==
    /\ pc = "done"
    /\ Len(world) = 2
    /\ \E k \in 1..2 : world[k].geom = "empty"
    /\ Len(countries) = 1
    /\ state_file # None
    /\ Len(state_file[1].countries) = 1

\* C9 (as claimed): with no value column, or with a reduced table without
\* rows, neither file is ever written and the run never ends successfully.
C9_EmptyTableFatalAsClaimed ==
    (~has_val_col \/ download_population_data(raw) = <<>>) =>
        /\ map_file = None
        /\ state_file = None
        /\ pc # "done"

=============================================================================
